---- MODULE Spec2Model ----
(***************************************************************************)
(* Iridium: the Core connection manager (connect / close / connection),    *)
(* the ModelCache and the ModelHandlers document pipelines.                *)
(*                                                                         *)
(* Every promise continuation of the source is one atomic step: JavaScript *)
(* runs a callback to completion, and between two callbacks of one chain   *)
(* callbacks of other chains may run.                                      *)
(***************************************************************************)
EXTENDS Integers, FiniteSets, Sequences, TLC

\* Number of connect() calls made on the Core during a behaviour of Spec.
MaxCalls == 2

\* The callers of Spec; WideSpec has one caller more.
Callers == 1..MaxCalls
Calls == 1..(MaxCalls + 1)
\* An underlying connect operation is named by its issue order; the Db it
\* yields carries the same number.  Each call issues at most one.
Attempts == 1..(MaxCalls + 1)
NoDb == 0
\* A Db that an overridden onConnecting hook resolves with in place of the
\* one it was given.
HookDb == MaxCalls + 2
Dbs == Attempts \cup {HookDb}
HookOutcomes == {"given", "replaced", "rejected"}

VARIABLES
    urlOk,            \* Core.url returns a string (FALSE: it throws)
    _connection,      \* Core._connection: NoDb (undefined) or a Db
    _connectPromise,  \* Core._connectPromise: 0 (undefined) or an attempt
    mongoConnect,     \* per attempt: "unissued", "pending", "resolved", "rejected"
    dbClosed,         \* per Db: number of Db.close() invocations on it
    pc,               \* per connect() call: position in its promise chain
    db,               \* per call: the value flowing down the chain
    path,             \* per call: which branch its first callback took
    result,           \* per call: what the returned promise settled with
    returned,         \* what the step just taken gave its caller: close() "self",
                      \* the connection getter "Db" or "NotConnected", else "none"
    concurrentOnly,   \* history: no connect() was invoked after a call settled, no close() ran
    quiet             \* history: close() ran with no connect() in flight, none invoked since

VARIABLES
    cacheDirector,    \* Model.cacheDirector: absent, or which documents / conditions it accepts
    hooks,            \* Model.options.hooks: which of retrieved / ready / creating are configured
    _cache,           \* Core._cache: the Cache instance currently set
    memory,           \* contents of the in-process map cache: key -> object (0: absent)
    heap,             \* JavaScript objects: documents and their nested objects
    rpc,              \* per documentReceived run: position in its chain
    options,          \* per run: options after _.defaults
    lastCall,         \* the call the step just taken made on the underlying Cache
    mcReturned,       \* what the ModelCache call just made resolved with
    writes,           \* per run: number of Cache.set calls it caused
    written,          \* per run: the object it passed to Cache.set and its value then
    rresult           \* per run: the wrapped result, or the error its promise rejected with

VARIABLES
    docValid,         \* per document of the batch: model.helpers.validate passes
    bpc,              \* per document of the batch: position of its branch
    bresult,          \* per branch: what it settled with
    creatingCalls,    \* per document: number of creating hook invocations with it
    batch             \* the Bluebird.all promise creatingDocuments returns

VARIABLES
    _url,             \* Core._url: the string given to the constructor (<<>>: none or "")
    _config,          \* Core._config: the Configuration given to the constructor
    urlReturned       \* what the url getter just returned or threw

coreVars == <<urlOk, _connection, _connectPromise, mongoConnect, dbClosed>>
callVars == <<pc, db, path, result>>
connVars == <<coreVars, callVars, returned, concurrentOnly, quiet>>

modelVars == <<cacheDirector, hooks>>
cacheVars == <<_cache, memory, lastCall, mcReturned>>
runVars == <<heap, rpc, options, writes, written, rresult>>
createVars == <<docValid, bpc, bresult, creatingCalls, batch>>
pipeVars == <<modelVars, cacheVars, runVars, createVars>>
\* Everything the cache and documentReceived steps leave alone.
otherVars == <<connVars, createVars, _url, _config, urlReturned>>

urlVars == <<_url, _config, urlReturned>>
\* Everything connect(), close() and the connection getter leave alone.
restVars == <<pipeVars, urlVars>>

vars == <<connVars, pipeVars, urlVars>>

----------------------------------------------------------------------------
\* Core.url: the connection string.  A string is a sequence of pieces.

\* Number of entries of Configuration.hosts.
MaxHosts == 2

Addresses == {"a", "b"}
\* A port; 0 stands for a port that is absent (or zero, which is falsy too).
Ports == 0..2
Literal == <<"mongodb://literal">>
NoUrlError == <<"Error: No URL or configuration provided">>
NotCalled == <<>>

\* Configuration.host: absent, a string, or an object with a port of its own.
NoHost == [kind |-> "absent", address |-> "", port |-> 0]
SingleHosts ==
    { NoHost,
      [kind |-> "string", address |-> "a", port |-> 0],
      [kind |-> "object", address |-> "a", port |-> 1] }

HostEntries == [address : Addresses, port : Ports]
HostLists == UNION {[1..n -> HostEntries] : n \in 0..MaxHosts}

NoConfig ==
    [present |-> FALSE, username |-> "", password |-> "", host |-> NoHost,
     port |-> 0, hosts |-> <<>>, database |-> ""]

Configurations ==
    [present : {TRUE}, username : {"", "u"}, password : {"", "p"},
     host : SingleHosts, port : Ports, hosts : HostLists, database : {"", "db"}]

\* A number in a template string.
PortString(p) == <<"1", "2">>[p]

\* A value in a template string: a string as it is, an object as
\* "[object Object]".
HostString(h) == IF h.kind = "object" THEN "[object Object]" ELSE h.address

\* `${host}:${port}`
HostPort(address, port) == <<address, ":", PortString(port)>>

\* "if (this._config.host)": the single host takes this._config.port.
SingleHost(cfg) ==
    IF cfg.host.kind # "absent"
    THEN IF cfg.port # 0
         THEN << HostPort(HostString(cfg.host), cfg.port) >>
         ELSE << <<HostString(cfg.host)>> >>
    ELSE <<>>

\* One entry of this._config.hosts.
AdditionalHost(cfg, h) ==
    IF h.port # 0 THEN HostPort(h.address, h.port)
    ELSE IF cfg.port # 0 THEN HostPort(h.address, cfg.port)
    ELSE <<h.address>>

\* The array "hosts" of the getter.
hosts(cfg) ==
    SingleHost(cfg) \o [i \in 1..Len(cfg.hosts) |-> AdditionalHost(cfg, cfg.hosts[i])]

\* An array left as it is.
uniq_KeepAll(s) == s

\* _.uniq: the first occurrence of each element, in order.
RECURSIVE uniq(_)
uniq(s) ==
    IF s = <<>> THEN <<>>
    ELSE LET front == uniq(SubSeq(s, 1, Len(s) - 1))
             last == s[Len(s)]
         IN IF \E i \in 1..Len(front) : front[i] = last
            THEN front ELSE Append(front, last)

\* Array.prototype.join
RECURSIVE join(_, _)
join(s, sep) ==
    IF s = <<>> THEN <<>>
    ELSE IF Len(s) = 1 THEN s[1]
    ELSE s[1] \o <<sep>> \o join(Tail(s), sep)

\* username[:password]@
credentials(cfg) ==
    IF cfg.username # ""
    THEN <<cfg.username>>
         \o (IF cfg.password # "" THEN <<":", cfg.password>> ELSE <<>>)
         \o <<"@">>
    ELSE <<>>

\* "/" + database
database(cfg) == IF cfg.database # "" THEN <<"/", cfg.database>> ELSE <<>>

\* get url()
url ==
    IF _url # <<>> THEN _url
    ELSE IF ~_config.present THEN NoUrlError
    ELSE <<"mongodb://">>
         \o credentials(_config)
         \o (IF hosts(_config) # <<>>
             THEN join(uniq(hosts(_config)), ",")
             ELSE <<"localhost">>)
         \o database(_config)

\* The url getter is read.
getUrl ==
    /\ urlReturned' = url
    /\ UNCHANGED <<_url, _config>>
    /\ UNCHANGED <<connVars, pipeVars>>

\* new Core(uri) with a string, which is empty when the getter throws.
StringTarget ==
    /\ _url = IF urlOk THEN Literal ELSE <<>>
    /\ _config = NoConfig
    /\ urlReturned = NotCalled

----------------------------------------------------------------------------

Settled(c) == pc[c] \in {"resolved", "rejected"}
InFlight(c) == pc[c] \in {"start", "threw", "waitConnect", "onConnecting", "onConnected"}

\* The number of underlying connect operations issued so far.
nConnects == Cardinality({a \in Attempts : mongoConnect[a] # "unissued"})

\* No connect() yet.
NotConnected ==
    /\ _connection = NoDb
    /\ _connectPromise = 0
    /\ mongoConnect = [a \in Attempts |-> "unissued"]
    /\ dbClosed = [d \in Dbs |-> 0]
    /\ pc = [c \in Calls |-> "idle"]
    /\ db = [c \in Calls |-> NoDb]
    /\ path = [c \in Calls |-> "none"]
    /\ result = [c \in Calls |-> "none"]
    /\ returned = "none"
    /\ concurrentOnly = TRUE
    /\ quiet = FALSE

ConnInit ==
    /\ urlOk \in BOOLEAN
    /\ StringTarget
    /\ NotConnected

\* connect(): the call returns a pending promise; its first callback is queued.
\* Calls are numbered in the order they are made.
connect(c) ==
    /\ pc[c] = "idle"
    /\ \A d \in Calls : d < c => pc[d] # "idle"
    /\ pc' = [pc EXCEPT ![c] = "start"]
    /\ concurrentOnly' = (concurrentOnly /\ \A d \in Calls : ~Settled(d))
    /\ quiet' = FALSE
    /\ returned' = "none"
    /\ UNCHANGED <<coreVars, db, path, result>>
    /\ UNCHANGED restVars

\* A faulty rejection handler that leaves the attempt marker set.
RejectCleanup_KeepPromise(c, err) ==
    /\ dbClosed' = IF _connection # NoDb
                   THEN [dbClosed EXCEPT ![_connection] = @ + 1]
                   ELSE dbClosed
    /\ _connection' = NoDb
    /\ _connectPromise' = _connectPromise
    /\ pc' = [pc EXCEPT ![c] = "rejected"]
    /\ result' = [result EXCEPT ![c] = err]

\* The rejection handler of connect(): close the current connection if there
\* is one, clear both fields, reject with the error.
RejectCleanup(c, err) ==
    /\ dbClosed' = IF _connection # NoDb
                   THEN [dbClosed EXCEPT ![_connection] = @ + 1]
                   ELSE dbClosed
    /\ _connection' = NoDb
    /\ _connectPromise' = 0
    /\ pc' = [pc EXCEPT ![c] = "rejected"]
    /\ result' = [result EXCEPT ![c] = err]

\* A faulty first callback that never joins the attempt in flight.
StartBranch_NoJoin ==
    IF _connection # NoDb THEN "reused"
    ELSE IF urlOk THEN "fresh"
    ELSE "threw"

\* The branch the first callback of connect() takes.
StartBranch ==
    IF _connection # NoDb THEN "reused"
    ELSE IF _connectPromise # 0 THEN "joined"
    ELSE IF urlOk THEN "fresh"
    ELSE "threw"

\* First callback: reuse the connection, join the attempt in flight, or issue
\* a new underlying connect; reading Core.url may throw, which leaves the
\* fields alone and queues the rejection handler.
connectStart(c) ==
    /\ pc[c] = "start"
    /\ path' = [path EXCEPT ![c] = StartBranch]
    /\ CASE StartBranch = "reused" ->
              /\ db' = [db EXCEPT ![c] = _connection]
              /\ pc' = [pc EXCEPT ![c] = "onConnecting"]
              /\ UNCHANGED <<_connection, _connectPromise, mongoConnect, dbClosed, result>>
         [] StartBranch = "joined" ->
              /\ db' = [db EXCEPT ![c] = _connectPromise]
              /\ pc' = [pc EXCEPT ![c] = "waitConnect"]
              /\ UNCHANGED <<_connection, _connectPromise, mongoConnect, dbClosed, result>>
         [] StartBranch = "fresh" ->
              /\ mongoConnect' = [mongoConnect EXCEPT ![nConnects + 1] = "pending"]
              /\ _connectPromise' = nConnects + 1
              /\ db' = [db EXCEPT ![c] = nConnects + 1]
              /\ pc' = [pc EXCEPT ![c] = "waitConnect"]
              /\ UNCHANGED <<_connection, dbClosed, result>>
         [] StartBranch = "threw" ->
              /\ pc' = [pc EXCEPT ![c] = "threw"]
              /\ UNCHANGED <<_connection, _connectPromise, mongoConnect, dbClosed,
                             db, result>>
    /\ returned' = "none"
    /\ UNCHANGED <<urlOk, concurrentOnly, quiet>>
    /\ UNCHANGED restVars

\* The rejection handler of a call whose first callback threw runs.
connectThrew(c) ==
    /\ pc[c] = "threw"
    /\ RejectCleanup(c, "NoUrl")
    /\ returned' = "none"
    /\ UNCHANGED <<urlOk, mongoConnect, db, path, concurrentOnly, quiet>>
    /\ UNCHANGED restVars

\* The underlying MongoClient.connect calls back with a Db or with an error,
\* at any time while it is pending: also while a first callback is queued.
mongoConnectAsyc(a, ok) ==
    /\ mongoConnect[a] = "pending"
    /\ mongoConnect' = [mongoConnect EXCEPT ![a] = IF ok THEN "resolved" ELSE "rejected"]
    /\ returned' = "none"
    /\ UNCHANGED <<urlOk, _connection, _connectPromise, dbClosed, callVars,
                   concurrentOnly, quiet>>
    /\ UNCHANGED restVars

\* A faulty chain that has no rejection handler for the attempt.
connectSettled_NoRejection(c) ==
    /\ pc[c] = "waitConnect"
    /\ mongoConnect[db[c]] = "resolved"
    /\ pc' = [pc EXCEPT ![c] = "onConnecting"]
    /\ returned' = "none"
    /\ UNCHANGED <<urlOk, _connection, _connectPromise, dbClosed, result,
                   mongoConnect, db, path, concurrentOnly, quiet>>
    /\ UNCHANGED restVars

\* A call waiting on an attempt sees it settle: on success it passes the Db
\* to onConnecting, on failure its rejection handler runs.
connectSettled(c) ==
    /\ pc[c] = "waitConnect"
    /\ mongoConnect[db[c]] \in {"resolved", "rejected"}
    /\ IF mongoConnect[db[c]] = "resolved"
       THEN /\ pc' = [pc EXCEPT ![c] = "onConnecting"]
            /\ UNCHANGED <<_connection, _connectPromise, dbClosed, result>>
       ELSE RejectCleanup(c, "ConnectError")
    /\ returned' = "none"
    /\ UNCHANGED <<urlOk, mongoConnect, db, path, concurrentOnly, quiet>>
    /\ UNCHANGED restVars

\* onConnecting(db) settles.  Resolved, with the Db it was given ("given") or
\* with another one ("replaced"): what it resolved with is stored, the attempt
\* marker cleared and onConnected() invoked.  Rejected ("rejected"): the
\* rejection handler runs.
onConnecting(c, outcome) ==
    /\ pc[c] = "onConnecting"
    /\ IF outcome # "rejected"
       THEN /\ _connection' = IF outcome = "given" THEN db[c] ELSE HookDb
            /\ _connectPromise' = 0
            /\ pc' = [pc EXCEPT ![c] = "onConnected"]
            /\ UNCHANGED <<dbClosed, result>>
       ELSE RejectCleanup(c, "OnConnectingError")
    /\ returned' = "none"
    /\ UNCHANGED <<urlOk, mongoConnect, db, path, concurrentOnly, quiet>>
    /\ UNCHANGED restVars

\* onConnected() settles: connect() resolves with the Core, or the rejection
\* handler runs.
onConnected(c, ok) ==
    /\ pc[c] = "onConnected"
    /\ IF ok
       THEN /\ pc' = [pc EXCEPT ![c] = "resolved"]
            /\ result' = [result EXCEPT ![c] = "self"]
            /\ UNCHANGED <<_connection, _connectPromise, dbClosed>>
       ELSE RejectCleanup(c, "OnConnectedError")
    /\ returned' = "none"
    /\ UNCHANGED <<urlOk, mongoConnect, db, path, concurrentOnly, quiet>>
    /\ UNCHANGED restVars

\* A faulty close() that closes the Db but keeps the field.
close_KeepConnection ==
    /\ IF _connection = NoDb
       THEN UNCHANGED <<_connection, dbClosed>>
       ELSE /\ _connection' = _connection
            /\ dbClosed' = [dbClosed EXCEPT ![_connection] = @ + 1]
    /\ _connectPromise' = _connectPromise
    /\ returned' = "self"
    /\ concurrentOnly' = FALSE
    /\ quiet' = \A c \in Calls : ~InFlight(c)
    /\ UNCHANGED <<urlOk, mongoConnect, callVars>>
    /\ UNCHANGED restVars

\* A faulty close() that also drops the attempt marker.
close_DropAttempt ==
    /\ IF _connection = NoDb
       THEN UNCHANGED <<_connection, dbClosed>>
       ELSE /\ _connection' = NoDb
            /\ dbClosed' = [dbClosed EXCEPT ![_connection] = @ + 1]
    /\ _connectPromise' = 0
    /\ returned' = "self"
    /\ concurrentOnly' = FALSE
    /\ quiet' = \A c \in Calls : ~InFlight(c)
    /\ UNCHANGED <<urlOk, mongoConnect, callVars>>
    /\ UNCHANGED restVars

\* A faulty close() that gives up the attempt in flight.
close_CancelAttempt ==
    /\ IF _connection = NoDb
       THEN UNCHANGED <<_connection, dbClosed>>
       ELSE /\ _connection' = NoDb
            /\ dbClosed' = [dbClosed EXCEPT ![_connection] = @ + 1]
    /\ _connectPromise' = 0
    /\ returned' = "self"
    /\ concurrentOnly' = FALSE
    /\ quiet' = \A c \in Calls : ~InFlight(c)
    /\ mongoConnect' = [a \in Attempts |-> IF mongoConnect[a] = "pending"
                                           THEN "rejected" ELSE mongoConnect[a]]
    /\ UNCHANGED <<urlOk, callVars>>
    /\ UNCHANGED restVars

\* close(): a no-op without a connection; otherwise clear the field first,
\* then close the Db.  Always resolves with the Core.
close ==
    /\ IF _connection = NoDb
       THEN UNCHANGED <<_connection, dbClosed>>
       ELSE /\ _connection' = NoDb
            /\ dbClosed' = [dbClosed EXCEPT ![_connection] = @ + 1]
    /\ _connectPromise' = _connectPromise
    /\ returned' = "self"
    /\ concurrentOnly' = FALSE
    /\ quiet' = \A c \in Calls : ~InFlight(c)
    /\ UNCHANGED <<urlOk, mongoConnect, callVars>>
    /\ UNCHANGED restVars

\* The connection getter: throws without a connection, else returns it.
connection ==
    /\ returned' = IF _connection = NoDb THEN "NotConnected" ELSE "Db"
    /\ UNCHANGED <<coreVars, callVars, concurrentOnly, quiet>>
    /\ UNCHANGED restVars

----------------------------------------------------------------------------
\* Model cache and the documentReceived pipeline

\* Number of documentReceived runs during a behaviour.
MaxRuns == 1

Runs == 1..MaxRuns
\* The _id values of documents and of query conditions; the director's keys.
DocIds == {1, 2}
\* Each run owns four objects: the document received and its nested object,
\* the deep copy made for the cache and its nested object.
Refs == 1..(4 * MaxRuns)
Orig(r) == 4 * r - 3
OrigSub(r) == 4 * r - 2
Clone(r) == 4 * r - 1
CloneSub(r) == 4 * r
NoObject == [id |-> 0, sub |-> 0, val |-> 0]

\* The cache directors tried: none, one accepting every document and query
\* with an _id, one accepting some of them only.
Directors ==
    { [present |-> FALSE, docIds |-> {}, queryIds |-> {}],
      [present |-> TRUE, docIds |-> {1, 2}, queryIds |-> {1, 2}],
      [present |-> TRUE, docIds |-> {1}, queryIds |-> {2}] }

CacheInstances == {"NoOpCache", "MemoryCache"}

\* "set cache(value) { this._cache = value; }" stores whatever it is given,
\* undefined included.
NoCache == "undefined"
CacheValues == CacheInstances \cup {NoCache}

NoCall == [op |-> "none", inst |-> "none", key |-> 0, value |-> 0]
NoReturn == [op |-> "none", arg |-> 0, value |-> 0, threw |-> FALSE]
NotWritten == [ref |-> 0, value |-> <<0, 0>>]

\* cacheDirector.valid / buildKey / validQuery / buildQueryKey; a document is
\* an object ref of the heap h.
valid(h, ref) == h[ref].id \in cacheDirector.docIds
buildKey(h, ref) == h[ref].id
validQuery(q) == q \in cacheDirector.queryIds
buildQueryKey(q) == q

\* The value of a document: its _id and the field of its nested object.
DeepValue(h, ref) == <<h[ref].id, h[h[ref].sub].val>>

\* Number of documents in the batch given to creatingDocuments.
MaxBatch == 3

Batch == 1..MaxBatch
BatchPending == [state |-> "pending", err |-> "none", doc |-> 0, seen |-> {}]

\* No creatingDocuments call yet.
CreateIdle ==
    /\ docValid = [d \in Batch |-> TRUE]
    /\ bpc = [d \in Batch |-> "idle"]
    /\ bresult = [d \in Batch |-> "none"]
    /\ creatingCalls = [d \in Batch |-> 0]
    /\ batch = BatchPending

PipeInit ==
    /\ cacheDirector \in Directors
    /\ hooks \in [retrieved : BOOLEAN, ready : BOOLEAN, creating : {FALSE}]
    /\ _cache = "NoOpCache"
    /\ memory = [k \in DocIds |-> 0]
    /\ heap = [x \in Refs |-> NoObject]
    /\ rpc = [r \in Runs |-> "idle"]
    /\ options = [r \in Runs |-> [cache |-> FALSE, fields |-> FALSE]]
    /\ lastCall = NoCall
    /\ mcReturned = NoReturn
    /\ writes = [r \in Runs |-> 0]
    /\ written = [r \in Runs |-> NotWritten]
    /\ rresult = [r \in Runs |-> "none"]
    /\ CreateIdle

\* A ModelCache that keeps the Cache instance it saw when it was constructed.
cache_AtConstruction == "NoOpCache"

\* Core.cache getter, read by ModelCache at each call.
cache == _cache

\* Cache.set / get / clear of the instance currently set on the Core.
CacheSet(key, value) ==
    /\ lastCall' = [op |-> "set", inst |-> cache, key |-> key, value |-> value]
    /\ memory' = IF cache = "MemoryCache" THEN [memory EXCEPT ![key] = value] ELSE memory

CacheGet(key) ==
    /\ lastCall' = [op |-> "get", inst |-> cache, key |-> key, value |-> 0]
    /\ memory' = memory

CacheClear(key) ==
    /\ lastCall' = [op |-> "clear", inst |-> cache, key |-> key, value |-> 0]
    /\ memory' = IF cache = "MemoryCache" THEN [memory EXCEPT ![key] = 0] ELSE memory

\* A faulty gate that forgets to ask the director about the document.
SetReachesCache_AnyDocument(h, ref) == cacheDirector.present

\* ModelCache.set passes the document on only with a director that accepts it.
SetReachesCache(h, ref) == cacheDirector.present /\ valid(h, ref)

\* ModelCache.get / clear pass the conditions on only with a director that
\* accepts them.
QueryReachesCache(q) == cacheDirector.present /\ validQuery(q)

\* "this.model.core.cache.set(...)" (get, clear) with no Cache on the Core:
\* reading the method of undefined throws a TypeError before the key is
\* built.
Throws(op, arg) ==
    /\ lastCall' = NoCall
    /\ memory' = memory
    /\ mcReturned' = [op |-> op, arg |-> arg, value |-> 0, threw |-> TRUE]

\* ModelCache.set(value)
ModelCache_set(h, ref) ==
    IF SetReachesCache(h, ref)
    THEN IF cache = NoCache
         THEN Throws("set", ref)
         ELSE /\ CacheSet(buildKey(h, ref), ref)
              /\ mcReturned' = [op |-> "set", arg |-> ref, value |-> ref,
                                threw |-> FALSE]
    ELSE /\ lastCall' = NoCall /\ memory' = memory
         /\ mcReturned' = [op |-> "set", arg |-> ref, value |-> ref, threw |-> FALSE]

ModelCache_get(q) ==
    IF QueryReachesCache(q)
    THEN IF cache = NoCache
         THEN Throws("get", q)
         ELSE /\ CacheGet(buildQueryKey(q))
              /\ mcReturned' = [op |-> "get", arg |-> q,
                                value |-> IF cache = "MemoryCache"
                                          THEN memory[buildQueryKey(q)] ELSE 0,
                                threw |-> FALSE]
    ELSE /\ lastCall' = NoCall /\ memory' = memory
         /\ mcReturned' = [op |-> "get", arg |-> q, value |-> 0, threw |-> FALSE]

ModelCache_clear(q) ==
    IF QueryReachesCache(q)
    THEN IF cache = NoCache
         THEN Throws("clear", q)
         ELSE /\ CacheClear(buildQueryKey(q))
              /\ mcReturned' = [op |-> "clear", arg |-> q,
                                value |-> IF cache = "MemoryCache"
                                             /\ memory[buildQueryKey(q)] # 0
                                          THEN 1 ELSE 0,
                                threw |-> FALSE]
    ELSE /\ lastCall' = NoCall /\ memory' = memory
         /\ mcReturned' = [op |-> "clear", arg |-> q, value |-> 0, threw |-> FALSE]

NoCacheCall == lastCall' = NoCall /\ mcReturned' = NoReturn /\ memory' = memory

\* Core.cache setter.
setCache(inst) ==
    /\ inst # _cache
    /\ _cache' = inst
    /\ NoCacheCall
    /\ UNCHANGED <<modelVars, runVars, otherVars>>

\* ModelCache.set called on its own with the document received by run r: a
\* Cache that stores keeps the object it is given, not a copy.
modelCacheSet(r) ==
    /\ rpc[r] # "idle"
    /\ ModelCache_set(heap, Orig(r))
    /\ UNCHANGED <<modelVars, _cache, runVars, otherVars>>

\* ModelCache.get / clear called on their own.
modelCacheGet(q) ==
    /\ ModelCache_get(q)
    /\ UNCHANGED <<modelVars, _cache, runVars, otherVars>>

modelCacheClear(q) ==
    /\ ModelCache_clear(q)
    /\ UNCHANGED <<modelVars, _cache, runVars, otherVars>>

\* documentReceived(conditions, result, wrapper, options): the document
\* arrives, the options get their defaults.  Runs are numbered in call order.
documentReceived(r, id, cacheOption, fields) ==
    /\ rpc[r] = "idle"
    /\ \A p \in Runs : p < r => rpc[p] # "idle"
    /\ heap' = [heap EXCEPT ![Orig(r)] = [id |-> id, sub |-> OrigSub(r), val |-> 0]]
    /\ options' = [options EXCEPT ![r] =
                     [cache |-> IF cacheOption = "undefined" THEN TRUE
                                ELSE cacheOption = "true",
                      fields |-> fields]]
    /\ rpc' = [rpc EXCEPT ![r] = "retrieved"]
    /\ NoCacheCall
    /\ UNCHANGED <<modelVars, _cache, writes, written, rresult, otherVars>>

\* Whoever holds the document received (a hook, the wrapper, the caller)
\* changes the field of its nested object.
mutateDocument(r) ==
    /\ rpc[r] # "idle"
    /\ heap[OrigSub(r)].val = 0
    /\ heap' = [heap EXCEPT ![OrigSub(r)].val = 1]
    /\ NoCacheCall
    /\ UNCHANGED <<modelVars, _cache, rpc, options, writes, written, rresult, otherVars>>

\* The retrieved hook, if configured, settles.
hookRetrieved(r, ok) ==
    /\ rpc[r] = "retrieved"
    /\ ~hooks.retrieved => ok
    /\ rpc' = [rpc EXCEPT ![r] = IF ok THEN "cache" ELSE "failed"]
    /\ rresult' = [rresult EXCEPT ![r] = IF ok THEN @ ELSE "RetrievedHookError"]
    /\ NoCacheCall
    /\ UNCHANGED <<modelVars, _cache, heap, options, writes, written, otherVars>>

\* A faulty condition that caches projected reads too.
ShouldCache_IgnoreFields(r) == cache # NoCache /\ options[r].cache

\* "this.model.core.cache && options.cache && !options.fields"
ShouldCache(r) == cache # NoCache /\ options[r].cache /\ ~options[r].fields

\* A faulty copy that shares the nested object with the document.
cloneDeep_Shallow(r) ==
    [heap EXCEPT ![Clone(r)] = [heap[Orig(r)] EXCEPT !.sub = heap[Orig(r)].sub]]

\* _.cloneDeep(target): the heap with a copy of the document and of its
\* nested object.
cloneDeep(r) ==
    [heap EXCEPT ![Clone(r)] = [heap[Orig(r)] EXCEPT !.sub = CloneSub(r)],
                 ![CloneSub(r)] = heap[heap[Orig(r)].sub]]

\* The caching step: copy the document and hand the copy to ModelCache.set.
\* The callback returns the promise of that call: the promise of Cache.set
\* when the call reached the Cache, a resolved one otherwise.
cacheDocument(r) ==
    /\ rpc[r] = "cache"
    /\ IF ShouldCache(r)
       THEN /\ heap' = cloneDeep(r)
            /\ ModelCache_set(heap', Clone(r))
            /\ writes' = [writes EXCEPT ![r] = IF lastCall'.op = "set" THEN @ + 1 ELSE @]
            /\ written' = [written EXCEPT ![r] =
                             IF lastCall'.op = "set"
                             THEN [ref |-> lastCall'.value,
                                   value |-> DeepValue(heap', lastCall'.value)]
                             ELSE @]
       ELSE /\ NoCacheCall
            /\ UNCHANGED <<heap, writes, written>>
    /\ rpc' = [rpc EXCEPT ![r] = IF mcReturned'.threw THEN "failed"
                                 ELSE IF lastCall'.op = "set" THEN "cacheSet"
                                 ELSE "wrap"]
    /\ rresult' = [rresult EXCEPT ![r] = IF mcReturned'.threw THEN "TypeError" ELSE @]
    /\ UNCHANGED <<modelVars, _cache, options, otherVars>>

\* The promise of Cache.set settles: the run goes on, or fails with the
\* reason of the Cache.
cacheSetSettled(r, ok) ==
    /\ rpc[r] = "cacheSet"
    /\ rpc' = [rpc EXCEPT ![r] = IF ok THEN "wrap" ELSE "failed"]
    /\ rresult' = [rresult EXCEPT ![r] = IF ok THEN @ ELSE "CacheError"]
    /\ NoCacheCall
    /\ UNCHANGED <<modelVars, _cache, heap, options, writes, written, otherVars>>

\* A faulty condition that invokes the ready hook for any wrapped result.
ReadyHookRuns_AnyResult(isInstance) == hooks.ready

\* "this.model.options.hooks.ready && wrapped instanceof this.model.Instance"
ReadyHookRuns(isInstance) == hooks.ready /\ isInstance

\* The wrapper runs; the ready hook is invoked for an Instance if configured.
wrapDocument(r, isInstance) ==
    /\ rpc[r] = "wrap"
    /\ rpc' = [rpc EXCEPT ![r] = IF ReadyHookRuns(isInstance) THEN "ready" ELSE "done"]
    /\ rresult' = [rresult EXCEPT ![r] = IF isInstance THEN "Instance" ELSE "Document"]
    /\ NoCacheCall
    /\ UNCHANGED <<modelVars, _cache, heap, options, writes, written, otherVars>>

\* The ready hook settles.
hookReady(r, ok) ==
    /\ rpc[r] = "ready"
    /\ rpc' = [rpc EXCEPT ![r] = IF ok THEN "done" ELSE "failed"]
    /\ rresult' = [rresult EXCEPT ![r] = IF ok THEN @ ELSE "ReadyHookError"]
    /\ NoCacheCall
    /\ UNCHANGED <<modelVars, _cache, heap, options, writes, written, otherVars>>

\* A Core that is never connected, for the cache specification.
ConnIdle ==
    /\ ConnInit
    /\ urlOk

----------------------------------------------------------------------------
\* The creatingDocuments pipeline

\* Bluebird.all over the branches, told the outcome of branch d: rejected
\* with the reason of the first rejection it is told, resolved once it has
\* been told that every branch resolved; settled, it stays as it is.
BluebirdAll(d) ==
    LET seen == batch.seen \cup {d}
    IN  IF batch.state # "pending" THEN [batch EXCEPT !.seen = seen]
        ELSE IF bpc[d] = "rejected"
        THEN [state |-> "rejected", err |-> bresult[d], doc |-> d, seen |-> seen]
        ELSE IF seen = Batch
        THEN [state |-> "resolved", err |-> "none", doc |-> 0, seen |-> seen]
        ELSE [batch EXCEPT !.seen = seen]

\* A branch moves on; the promise of the batch is told in a later callback.
BranchStep(d, newPc, newResult) ==
    /\ bpc' = [bpc EXCEPT ![d] = newPc]
    /\ bresult' = [bresult EXCEPT ![d] = newResult]
    /\ batch' = batch

\* creatingDocuments(documents): one branch per document, its first callback
\* queued.
creatingDocuments(valids) ==
    /\ \A d \in Batch : bpc[d] = "idle"
    /\ docValid' = valids
    /\ bpc' = [d \in Batch |-> "start"]
    /\ UNCHANGED <<bresult, creatingCalls, batch>>
    /\ UNCHANGED <<connVars, modelVars, cacheVars, runVars, urlVars>>

\* "if (this.model.options.hooks.retrieved)": the guard in front of the
\* creating hook.
CreatingGuard == hooks.retrieved

\* First callback of a branch: behind the guard hooks.creating(document) is
\* called; calling a hook that is not configured throws a TypeError.
creatingStart(d) ==
    /\ bpc[d] = "start"
    /\ IF CreatingGuard
       THEN IF hooks.creating
            THEN /\ creatingCalls' = [creatingCalls EXCEPT ![d] = @ + 1]
                 /\ BranchStep(d, "creating", "none")
            ELSE /\ BranchStep(d, "rejected", "TypeError")
                 /\ UNCHANGED creatingCalls
       ELSE /\ BranchStep(d, "validate", "none")
            /\ UNCHANGED creatingCalls
    /\ UNCHANGED docValid
    /\ UNCHANGED <<connVars, modelVars, cacheVars, runVars, urlVars>>

\* The creating hook settles.
hookCreating(d, ok) ==
    /\ bpc[d] = "creating"
    /\ IF ok THEN BranchStep(d, "validate", "none")
             ELSE BranchStep(d, "rejected", "HookError")
    /\ UNCHANGED <<docValid, creatingCalls>>
    /\ UNCHANGED <<connVars, modelVars, cacheVars, runVars, urlVars>>

\* A faulty second callback that returns the document whatever validate says.
ValidationOutcome_Ignored(d) == "resolved"

\* "if (validation.failed) return Bluebird.reject(validation.error)"
ValidationOutcome(d) == IF docValid[d] THEN "resolved" ELSE "rejected"

\* Second callback of a branch: validate the document.
validateDocument(d) ==
    /\ bpc[d] = "validate"
    /\ BranchStep(d, ValidationOutcome(d),
                  IF ValidationOutcome(d) = "resolved" THEN "document"
                  ELSE "ValidationFailed")
    /\ UNCHANGED <<docValid, creatingCalls>>
    /\ UNCHANGED <<connVars, modelVars, cacheVars, runVars, urlVars>>

\* The callback Bluebird.all attached to branch d runs, some time after the
\* branch has settled: the outcomes of settled branches reach it in the order
\* in which Bluebird's queue holds them.
allSettled(d) ==
    /\ bpc[d] \in {"resolved", "rejected"}
    /\ d \notin batch.seen
    /\ batch' = BluebirdAll(d)
    /\ UNCHANGED <<docValid, bpc, bresult, creatingCalls>>
    /\ UNCHANGED <<connVars, modelVars, cacheVars, runVars, urlVars>>

\* Any hooks, no director, no documentReceived run, a Core never connected.
CreateInit ==
    /\ ConnIdle
    /\ cacheDirector = [present |-> FALSE, docIds |-> {}, queryIds |-> {}]
    /\ hooks \in [retrieved : BOOLEAN, ready : {FALSE}, creating : BOOLEAN]
    /\ _cache = "NoOpCache"
    /\ memory = [k \in DocIds |-> 0]
    /\ heap = [x \in Refs |-> NoObject]
    /\ rpc = [r \in Runs |-> "idle"]
    /\ options = [r \in Runs |-> [cache |-> FALSE, fields |-> FALSE]]
    /\ lastCall = NoCall
    /\ mcReturned = NoReturn
    /\ writes = [r \in Runs |-> 0]
    /\ written = [r \in Runs |-> NotWritten]
    /\ rresult = [r \in Runs |-> "none"]
    /\ CreateIdle

CreateNext ==
    \/ \E valids \in [Batch -> BOOLEAN] : creatingDocuments(valids)
    \/ \E d \in Batch : creatingStart(d)
    \/ \E d \in Batch, ok \in BOOLEAN : hookCreating(d, ok)
    \/ \E d \in Batch : validateDocument(d)
    \/ \E d \in Batch : allSettled(d)

CreateSpec == CreateInit /\ [][CreateNext]_vars

\* A model without director or hooks and no run, for the connection
\* specification.
PipeIdle ==
    /\ PipeInit
    /\ ~cacheDirector.present
    /\ hooks = [retrieved |-> FALSE, ready |-> FALSE, creating |-> FALSE]

CacheInit == ConnIdle /\ PipeInit

\* A model without hooks.
HooklessInit ==
    /\ CacheInit
    /\ hooks = [retrieved |-> FALSE, ready |-> FALSE, creating |-> FALSE]

\* The cache and the runs that feed it, for a model without hooks whose
\* wrapper gives Instances.
CacheNext ==
    \/ \E inst \in CacheValues : setCache(inst)
    \/ \E r \in Runs : modelCacheSet(r)
    \/ \E q \in DocIds : modelCacheGet(q)
    \/ \E q \in DocIds : modelCacheClear(q)
    \/ \E r \in Runs, id \in DocIds, cacheOption \in {"undefined", "true", "false"},
          fields \in BOOLEAN : documentReceived(r, id, cacheOption, fields)
    \/ \E r \in Runs : mutateDocument(r)
    \/ \E r \in Runs, ok \in {TRUE} : hookRetrieved(r, ok)
    \/ \E r \in Runs : cacheDocument(r)
    \/ \E r \in Runs, ok \in BOOLEAN : cacheSetSettled(r, ok)
    \/ \E r \in Runs, isInstance \in {TRUE} : wrapDocument(r, isInstance)

CacheSpec == HooklessInit /\ [][CacheNext]_vars

\* The steps of documentReceived alone: any hook and any cache write may
\* fail, the wrapper gives an Instance or something else, either Cache is set.
ReceiveNext ==
    \/ \E inst \in CacheValues : setCache(inst)
    \/ \E r \in Runs, id \in DocIds, cacheOption \in {"undefined", "true", "false"},
          fields \in BOOLEAN : documentReceived(r, id, cacheOption, fields)
    \/ \E r \in Runs, ok \in BOOLEAN : hookRetrieved(r, ok)
    \/ \E r \in Runs : cacheDocument(r)
    \/ \E r \in Runs, ok \in BOOLEAN : cacheSetSettled(r, ok)
    \/ \E r \in Runs, isInstance \in BOOLEAN : wrapDocument(r, isInstance)
    \/ \E r \in Runs, ok \in BOOLEAN : hookReady(r, ok)

ReceiveSpec == CacheInit /\ [][ReceiveNext]_vars

Init == ConnInit /\ PipeIdle

Next ==
    \/ \E c \in Callers : connect(c)
    \/ \E c \in Calls : connectStart(c)
    \/ \E c \in Calls : connectThrew(c)
    \/ \E a \in Attempts, ok \in BOOLEAN : mongoConnectAsyc(a, ok)
    \/ \E c \in Calls : connectSettled(c)
    \/ \E c \in Calls, outcome \in HookOutcomes : onConnecting(c, outcome)
    \/ \E c \in Calls, ok \in BOOLEAN : onConnected(c, ok)
    \/ close
    \/ connection

Spec == Init /\ [][Next]_vars

\* The same Core with one caller more.
WideNext ==
    \/ \E c \in Calls : connect(c)
    \/ \E c \in Calls : connectStart(c)
    \/ \E c \in Calls : connectThrew(c)
    \/ \E a \in Attempts, ok \in BOOLEAN : mongoConnectAsyc(a, ok)
    \/ \E c \in Calls : connectSettled(c)
    \/ \E c \in Calls, outcome \in HookOutcomes : onConnecting(c, outcome)
    \/ \E c \in Calls, ok \in BOOLEAN : onConnected(c, ok)
    \/ close
    \/ connection

WideSpec == Init /\ [][WideNext]_vars

\* Number of connect() calls in the behaviours checked for termination.
MaxLiveCalls == 2

LiveCalls == 1..MaxLiveCalls

LiveNext ==
    \/ \E c \in LiveCalls : connect(c)
    \/ \E c \in LiveCalls : connectStart(c)
    \/ \E c \in LiveCalls : connectThrew(c)
    \/ \E a \in Attempts, ok \in BOOLEAN : mongoConnectAsyc(a, ok)
    \/ \E c \in LiveCalls : connectSettled(c)
    \/ \E c \in LiveCalls, outcome \in HookOutcomes : onConnecting(c, outcome)
    \/ \E c \in LiveCalls, ok \in BOOLEAN : onConnected(c, ok)
    \/ close
    \/ connection

\* The event loop runs every queued callback; every underlying connect and
\* every hook invocation settles.  connect(), close() and the connection
\* getter are called or not as the application likes.
Fairness ==
    /\ \A c \in LiveCalls : WF_vars(connectStart(c))
    /\ \A c \in LiveCalls : WF_vars(connectThrew(c))
    /\ \A a \in Attempts : WF_vars(\E ok \in BOOLEAN : mongoConnectAsyc(a, ok))
    /\ \A c \in LiveCalls : WF_vars(connectSettled(c))
    /\ \A c \in LiveCalls : WF_vars(\E outcome \in HookOutcomes : onConnecting(c, outcome))
    /\ \A c \in LiveCalls : WF_vars(\E ok \in BOOLEAN : onConnected(c, ok))

LiveSpec == Init /\ [][LiveNext]_vars /\ Fairness

\* Any constructor arguments, the getter not read yet.
UrlInit ==
    /\ _url \in {<<>>, Literal}
    /\ _config \in Configurations \cup {NoConfig}
    /\ urlReturned = NotCalled
    /\ urlOk = (url # NoUrlError)
    /\ NotConnected
    /\ PipeIdle

UrlNext == getUrl

UrlSpec == UrlInit /\ [][UrlNext]_vars

----------------------------------------------------------------------------
\* Connection manager: properties

Started(c) == pc[c] \notin {"idle", "start"}
nPending == Cardinality({a \in Attempts : mongoConnect[a] = "pending"})

nRejected == Cardinality({c \in Calls : pc[c] = "rejected"})

C2_AtMostOneHandle ==
    nPending + (IF _connection # NoDb THEN 1 ELSE 0) <= 1

\* C3: the step in which a connect() call rejects carries the error of the
\* step that failed, leaves both the connection and the attempt marker
\* cleared and issues no underlying connect; a connect() whose first callback
\* runs with both cleared issues a new underlying connect operation; and
\* while no call is past its first callback, both stay cleared until such a
\* first callback runs.
C3_FailureCleanup ==
    [][/\ \A c \in Calls :
            (pc[c] # "rejected" /\ pc'[c] = "rejected")
                => /\ _connection' = NoDb
                   /\ _connectPromise' = 0
                   /\ mongoConnect' = mongoConnect
                   /\ result'[c] = CASE pc[c] = "threw" -> "NoUrl"
                                     [] pc[c] = "waitConnect" -> "ConnectError"
                                     [] pc[c] = "onConnecting" -> "OnConnectingError"
                                     [] pc[c] = "onConnected" -> "OnConnectedError"
       /\ \A c \in Calls :
            (pc[c] = "start" /\ pc'[c] # "start" /\ urlOk
               /\ _connection = NoDb /\ _connectPromise = 0)
                => /\ nConnects' = nConnects + 1
                   /\ mongoConnect'[nConnects'] = "pending"
                   /\ _connectPromise' = nConnects'
       /\ ((\A c \in Calls : pc[c] \in {"idle", "start", "resolved", "rejected"})
             /\ _connection = NoDb /\ _connectPromise = 0)
                => /\ _connection' = NoDb
                   /\ _connectPromise' = 0 \/ nConnects' = nConnects + 1
      ]_vars

C3_Witness ==
    \E c, d \in Calls :
        /\ pc[c] = "rejected" /\ result[c] = "OnConnectedError"
        /\ path[d] = "fresh" /\ db[d] > db[c]

\* C4: a connect() call that rejected because onConnecting or onConnected
\* failed has had the Db of its attempt closed.
C4_NoLeakOnFailure ==
    \A c \in Calls :
        (pc[c] = "rejected" /\ result[c] \in {"OnConnectingError", "OnConnectedError"})
            => dbClosed[db[c]] >= 1

\* C5: a connect() call whose first callback found a connection established
\* issues no underlying connect and does not reject: it resolves with the
\* manager.
C5_ReuseResolves ==
    \A c \in Calls :
        path[c] = "reused"
            => /\ pc[c] # "rejected"
               /\ pc[c] = "resolved" => result[c] = "self"

\* C6: once close() has run with no connect() in flight, the connection is
\* absent and reading it gives NotConnected until a later connect() is made;
\* only a connect() call's continuation establishes a connection; reading
\* the connection changes nothing and starts no connect.
C6_ClosedStaysClosed ==
    [][/\ quiet' => _connection' = NoDb
       /\ (quiet /\ returned' \in {"NotConnected", "Db"}) => returned' = "NotConnected"
       /\ returned' \in {"NotConnected", "Db"}
            => /\ UNCHANGED <<coreVars, callVars>>
               /\ returned' = "NotConnected" <=> _connection = NoDb
       /\ (_connection = NoDb /\ _connection' # NoDb)
            => \E c \in Calls : pc[c] = "onConnecting" /\ pc'[c] = "onConnected"
      ]_vars

C6_Witness ==
    /\ quiet
    /\ returned = "NotConnected"
    /\ \E c \in Calls : pc[c] = "resolved" /\ dbClosed[db[c]] = 1

\* C7: close() always leaves the manager disconnected and resolves with it;
\* without an established connection it changes no state and releases
\* nothing; with one it releases exactly that connection, once.  A second
\* close() right after a close() is therefore a no-op.
C7_CloseIdempotent ==
    [][close =>
        /\ returned' = "self"
        /\ _connection' = NoDb
        /\ _connection = NoDb => UNCHANGED <<coreVars, callVars>>
        /\ _connection # NoDb
             => dbClosed' = [dbClosed EXCEPT ![_connection] = dbClosed[_connection] + 1]
        /\ UNCHANGED <<urlOk, _connectPromise, mongoConnect, callVars>>
      ]_vars

C7_Witness ==
    /\ returned = "self"
    /\ nConnects = 0
    /\ _connection = NoDb
    /\ \A a \in Attempts : dbClosed[a] = 0
    /\ \E c \in Calls : pc[c] = "start"

----------------------------------------------------------------------------
\* Model cache and documentReceived: properties

\* C8: whenever a step calls the underlying Cache, the model has a director;
\* a set carries a document the director accepts, under the key the director
\* builds for it; a get or clear is made for conditions the director accepts,
\* under the key the director builds for them.  Without a director no step
\* calls the underlying Cache, and set / get / clear resolve with the document
\* given / nothing / false.
C8_CacheGating ==
    [][/\ lastCall'.op # "none" => cacheDirector.present
       /\ lastCall'.op = "set"
            => /\ mcReturned'.op = "set"
               /\ lastCall'.value = mcReturned'.arg
               /\ valid(heap', lastCall'.value)
               /\ lastCall'.key = buildKey(heap', lastCall'.value)
       /\ lastCall'.op \in {"get", "clear"}
            => /\ mcReturned'.op = lastCall'.op
               /\ validQuery(mcReturned'.arg)
               /\ lastCall'.key = buildQueryKey(mcReturned'.arg)
       /\ (mcReturned'.op # "none" /\ ~cacheDirector.present)
            => /\ lastCall' = NoCall
               /\ memory' = memory
               /\ mcReturned'.value = IF mcReturned'.op = "set"
                                      THEN mcReturned'.arg ELSE 0
      ]_vars

C8_Witness ==
    /\ cacheDirector.present
    /\ lastCall.op = "clear"
    /\ mcReturned.value = 1
    /\ \E r \in Runs : writes[r] = 1 /\ heap[Orig(r)].id = lastCall.key

\* Run r was asked to cache a complete document that the director accepts.
Cacheable(r) ==
    /\ cache # NoCache
    /\ options[r].cache
    /\ ~options[r].fields
    /\ cacheDirector.present
    /\ heap[Orig(r)].id \in cacheDirector.docIds

\* C9: a run never writes to the cache more than once; the caching step of a
\* run with caching enabled (a Cache on the Core, the cache option set), no
\* projection and a document the director accepts writes exactly once; and
\* the object written keeps the value it had when written, whatever happens
\* to the document received.
C9_OneWriteOfACopy ==
    [][\A r \in Runs :
         /\ writes'[r] <= 1
         /\ (Cacheable(r) /\ rpc[r] = "cache" /\ rpc'[r] # "cache")
              => (writes[r] = 0 /\ writes'[r] = 1)
         /\ writes'[r] = 1
              => /\ written'[r].ref # Orig(r)
                 /\ DeepValue(heap', written'[r].ref) = written'[r].value
      ]_vars

C9_Witness ==
    \E r \in Runs :
        /\ Cacheable(r)
        /\ rpc[r] = "done"
        /\ writes[r] = 1
        /\ DeepValue(heap, Orig(r)) # written[r].value
        /\ DeepValue(heap, written[r].ref) = written[r].value
        /\ memory[heap[Orig(r)].id] = written[r].ref

\* C10: no step of a run made for a projected read calls the underlying
\* Cache or changes its contents, and such a run has written nothing,
\* whatever its cache option and whatever the director accepts.
C10_PartialNeverCached ==
    [][\A r \in Runs :
         options'[r].fields
            => /\ writes'[r] = 0
               /\ rpc'[r] # rpc[r]
                    => /\ lastCall'.op = "none"
                       /\ memory' = memory
      ]_vars

C10_Witness ==
    \E r \in Runs :
        /\ options[r].fields
        /\ options[r].cache
        /\ cacheDirector.present
        /\ heap[Orig(r)].id \in cacheDirector.docIds
        /\ rpc[r] = "done"
        /\ writes[r] = 0
        /\ _cache = "MemoryCache"

----------------------------------------------------------------------------
\* creatingDocuments: properties

BranchStarted(d) == bpc[d] \notin {"idle", "start"}

\* C11: for every document whose branch has run its first callback, the
\* creating hook has been invoked exactly once with it if a creating hook is
\* configured and never otherwise, whatever other hooks are configured; and
\* a document is validated only after that invocation has completed.
C11_CreatingHookIffConfigured ==
    \A d \in Batch :
        BranchStarted(d)
            => /\ creatingCalls[d] = (IF hooks.creating THEN 1 ELSE 0)
               /\ bresult[d] # "TypeError"
               /\ bpc[d] = "creating" => bresult[d] = "none"

\* C12: a branch that has validated its document settles by that document
\* alone: rejected with ValidationFailed if it fails validation, resolved
\* with the document if it passes, whatever its siblings did and whatever
\* has become of the batch promise, which aborts no branch; one promise
\* awaits all branches: it is told the outcome of settled branches only, it
\* resolves only when it has been told that every branch resolved, it
\* rejects only with the reason of a branch that rejected, and it is settled
\* once it has been told every outcome.
C12_BranchesIndependent ==
    /\ \A d \in Batch :
         /\ bresult[d] = "ValidationFailed" => (bpc[d] = "rejected" /\ ~docValid[d])
         /\ bresult[d] = "document" => (bpc[d] = "resolved" /\ docValid[d])
         /\ (bpc[d] = "resolved") => bresult[d] = "document"
         /\ (bpc[d] = "rejected" /\ docValid[d]) => bresult[d] \in {"HookError", "TypeError"}
         /\ d \in batch.seen => bpc[d] \in {"resolved", "rejected"}
    /\ batch.state = "resolved"
         => (batch.seen = Batch /\ \A d \in Batch : bpc[d] = "resolved")
    /\ batch.state = "rejected"
         => /\ batch.doc \in batch.seen
            /\ bpc[batch.doc] = "rejected"
            /\ bresult[batch.doc] = batch.err
    /\ batch.seen = Batch => batch.state # "pending"

\* Of three documents the second failed validation: the batch promise was
\* rejected with its error, and the first and third branch have resolved
\* with their documents, Bluebird.all not yet told of them.
C12_Witness ==
    /\ MaxBatch >= 3
    /\ bpc[1] = "resolved" /\ bresult[1] = "document"
    /\ bpc[2] = "rejected" /\ bresult[2] = "ValidationFailed"
    /\ bpc[3] = "resolved" /\ bresult[3] = "document"
    /\ batch = [state |-> "rejected", err |-> "ValidationFailed", doc |-> 2,
                seen |-> {2}]

----------------------------------------------------------------------------
\* Cache swaps

\* C13: every ModelCache set/get/clear that reaches a Cache goes to the
\* instance that the Core holds at the time of the call, that is the one the
\* latest use of the cache setter put there, also for a model constructed
\* before the swap; only the instance currently set has its contents changed.
C13_SwapAppliesAtCallTime ==
    [][/\ lastCall'.op # "none" => lastCall'.inst = _cache'
       /\ memory' # memory => _cache' = "MemoryCache"]_vars

\* MemoryCache was set and written, NoOpCache was set again, and a get went
\* to NoOpCache.
C13_Witness ==
    /\ _cache = "NoOpCache"
    /\ \E k \in DocIds : memory[k] # 0
    /\ lastCall.op = "get"
    /\ lastCall.inst = "NoOpCache"

----------------------------------------------------------------------------
\* Core.url: properties

\* The getter has been read on a Core built from a Configuration alone.
Structured == _url = <<>> /\ _config.present /\ urlReturned # NotCalled

\* The entries of s without those that repeat an earlier entry.
RECURSIVE FirstOccurrences(_, _)
FirstOccurrences(s, i) ==
    IF i > Len(s) THEN <<>>
    ELSE (IF \A j \in 1..(i - 1) : s[j] # s[i] THEN <<s[i]>> ELSE <<>>)
         \o FirstOccurrences(s, i + 1)

HostSegment(list) ==
    IF list = <<>> THEN <<"localhost">> ELSE join(FirstOccurrences(list, 1), ",")

AdditionalHosts(cfg) ==
    [i \in 1..Len(cfg.hosts) |-> AdditionalHost(cfg, cfg.hosts[i])]

\* The single host as the string it converts to, with the shared port, else
\* no port.
SharedPortHost(cfg) ==
    IF cfg.host.kind = "absent" THEN <<>>
    ELSE IF cfg.port # 0 THEN << HostPort(HostString(cfg.host), cfg.port) >>
    ELSE << <<HostString(cfg.host)>> >>

\* C14 as stated: for a Configuration without a literal string the host
\* segment is the de-duplicated, order-preserving list of the single host
\* (with its own port, else the shared port, else no port) followed by the
\* additional hosts (own port, else shared port, else no port), joined by
\* commas, and localhost when there is no host; host a with port 1, shared
\* port 2 and additional hosts [b] give a:1,b:2.
C14_HostSegment ==
    LET ownPortHost ==
            IF _config.host.kind = "absent" THEN <<>>
            ELSE IF _config.host.port # 0
            THEN << HostPort(_config.host.address, _config.host.port) >>
            ELSE IF _config.port # 0
            THEN << HostPort(_config.host.address, _config.port) >>
            ELSE << <<_config.host.address>> >>
    IN  Structured
            => urlReturned = <<"mongodb://">> \o credentials(_config)
                             \o HostSegment(ownPortHost \o AdditionalHosts(_config))
                             \o database(_config)

\* C14 amended: the single host is rendered with the shared port if one is
\* configured, else with no port; it has no port of its own.
C14_HostSegmentSharedPort ==
    Structured
        => urlReturned = <<"mongodb://">> \o credentials(_config)
                         \o HostSegment(SharedPortHost(_config) \o AdditionalHosts(_config))
                         \o database(_config)

\* host a, shared port 2, additional hosts [b, a:2, b with port 1]:
\* a:2,b:2,b:1.
C14_Witness ==
    /\ Structured
    /\ _config.host = [kind |-> "string", address |-> "a", port |-> 0]
    /\ _config.port = 2
    /\ Len(_config.hosts) = 2
    /\ _config.hosts[1] = [address |-> "b", port |-> 0]
    /\ _config.hosts[2] = [address |-> "a", port |-> 2]
    /\ urlReturned = <<"mongodb://", "a", ":", "2", ",", "b", ":", "2">>

----------------------------------------------------------------------------
\* Connection manager: hooks, released handles, concurrent callers

\* C15: the hooks run once per connection establishment: a connect() call
\* that found the connection established or joined an attempt in flight is
\* never in onConnecting or onConnected, and of the calls that share one
\* underlying connect at most one is in a hook.
C15_HooksOncePerEstablishment ==
    /\ \A c \in Calls :
         path[c] \in {"reused", "joined"} => pc[c] \notin {"onConnecting", "onConnected"}
    /\ \A a \in Attempts :
         Cardinality({c \in Calls : db[c] = a /\ pc[c] \in {"onConnecting", "onConnected"}}) <= 1

\* C16: the established connection is absent or a Db on which close() has
\* never been invoked.
C16_NeverReleasedHandle ==
    _connection # NoDb => dbClosed[_connection] = 0

\* C17: when close() is never called (here: and every connect() is invoked
\* before any has settled), a connection is established at the moment a
\* connect() call resolves, also when other calls fail.
C17_ResolvedMeansConnected ==
    [][\A c \in Calls :
         (concurrentOnly' /\ pc[c] = "onConnected" /\ pc'[c] = "resolved")
            => _connection' # NoDb
      ]_vars

\* C19: a close() made while a connect attempt is in flight and no connection
\* is established changes nothing of the Core or of the calls and resolves
\* with the Core; the attempt stays pending, and a call whose onConnecting
\* then succeeds establishes a connection: the Db the attempt gave, or the
\* one the hook put in its place.
C19_CloseDuringAttempt ==
    [][/\ (close /\ _connection = NoDb /\ \E c \in Calls : InFlight(c))
            => /\ returned' = "self"
               /\ UNCHANGED <<coreVars, callVars>>
       /\ \A c \in Calls :
            (pc[c] = "onConnecting" /\ pc'[c] = "onConnected")
               => /\ _connection' \in {db[c], HookDb}
                  /\ path[c] # "reused" => mongoConnect[db[c]] = "resolved"
      ]_vars

\* close() has just resolved while the underlying connect is pending.
C19_Witness ==
    /\ returned = "self"
    /\ _connection = NoDb
    /\ _connectPromise # 0
    /\ mongoConnect[_connectPromise] = "pending"
    /\ \E c \in Calls : pc[c] = "waitConnect" /\ db[c] = _connectPromise

----------------------------------------------------------------------------
\* documentReceived: order of the steps

\* The steps a run may take, one after the other.
PipelineEdges ==
    { <<"idle", "retrieved">>,
      <<"retrieved", "cache">>, <<"retrieved", "failed">>,
      <<"cache", "cacheSet">>, <<"cache", "wrap">>,
      <<"cacheSet", "wrap">>, <<"cacheSet", "failed">>,
      <<"wrap", "ready">>, <<"wrap", "done">>,
      <<"ready", "done">>, <<"ready", "failed">> }

\* C18: a run goes through retrieved hook, cache write, wrap and ready hook
\* in this order and through each at most once; the Cache is written by the
\* caching step only; a run whose retrieved hook or cache write failed takes
\* no further step and keeps that error as its outcome; the ready hook is
\* invoked only if it is configured and the wrapped result is an Instance.
C18_PipelineOrder ==
    [][\A r \in Runs :
         /\ rpc'[r] # rpc[r] => <<rpc[r], rpc'[r]>> \in PipelineEdges
         /\ writes'[r] # writes[r] => (rpc[r] = "cache" /\ rpc'[r] # "cache")
         /\ (rpc[r] = "retrieved" /\ rpc'[r] = "failed")
              => (hooks.retrieved /\ rresult'[r] = "RetrievedHookError" /\ writes'[r] = 0)
         /\ rpc'[r] = "cacheSet" => writes'[r] = 1
         /\ (rpc[r] = "cacheSet" /\ rpc'[r] = "failed")
              => (rresult'[r] = "CacheError" /\ writes'[r] = 1)
         /\ rpc[r] = "failed"
              => (rpc'[r] = "failed" /\ rresult'[r] = rresult[r] /\ writes'[r] = writes[r])
         /\ rpc'[r] = "ready" => (hooks.ready /\ rresult'[r] = "Instance")
         /\ rpc'[r] = "done" => rresult'[r] \in {"Instance", "Document"}
      ]_vars

\* A run with both hooks that went through all four steps.
C18_Witness ==
    \E r \in Runs :
        /\ hooks.retrieved /\ hooks.ready
        /\ rpc[r] = "done"
        /\ rresult[r] = "Instance"
        /\ writes[r] = 1

----------------------------------------------------------------------------
\* connect(): termination

\* C20: when the event loop is fair and every underlying connect and every
\* hook invocation settles, every connect() call made is eventually resolved
\* or rejected, whatever other connect() and close() calls are made.
C20_ConnectSettles ==
    \A c \in LiveCalls : (pc[c] = "start") ~> Settled(c)

\* Every call has settled, one resolved and one rejected, and close() ran.
C20_Witness ==
    /\ \A c \in LiveCalls : Settled(c)
    /\ \E c \in LiveCalls : pc[c] = "resolved"
    /\ \E c \in LiveCalls : pc[c] = "rejected"
    /\ ~concurrentOnly
    /\ returned = "self"

====
